---- MODULE Spec2Model ----
(***************************************************************************)
(* A model of the source-rewriting scripts of the repository:              *)
(*   src/replace_tie_refund.py                       (locate, scan, replace)*)
(*   src/backend/src/controllers/cleanup_squads.py   (removal pipeline)     *)
(*   src/backend/src/controllers/batch_replace_squads.py (inline transform) *)
(*                                                                         *)
(* A text line is the sequence of the tokens the scripts look at, in the   *)
(* order they occur on the line: "M" is one occurrence of the marker text  *)
(* '// Losing tie - both players get 95% refund', "{" and "}" are the two  *)
(* delimiters, "N" is an occurrence of some other marker text and "x" is a *)
(* run of any other text.  A document is a sequence of lines.  Indices are *)
(* the 0-based indices of the Python code; At(s, i) is s[i] of Python.     *)
(***************************************************************************)
EXTENDS Integers, Sequences, FiniteSets, TLC

VARIABLES
    pc,                \* position of the running script
    file,              \* content of the target file on disk
    file0,             \* content of the target file when the run started
    lines,             \* replace_tie_refund: lines (the document in memory)
    start_idx,         \* replace_tie_refund: start_idx (None before the search)
    end_idx,           \* replace_tie_refund: end_idx (None before the scan)
    brace_count,       \* replace_tie_refund: brace_count when the scan loop ended
    found_start,       \* replace_tie_refund: found_start when the scan loop ended
    replacement_lines, \* replace_tie_refund: replacement_lines (<<>> until built)
    new_lines,         \* replace_tie_refund: new_lines (<<>> until built)
    exit_code,         \* process exit status (None while running)
    err,               \* which error ended the run ("" when none)
    run,               \* number of the current run on the same file
    prev_start,        \* start_idx of the previous successful run (None if none)
    literal,           \* TRUE: the Replacement is the script's literal; FALSE: a parameter
    content,           \* cleanup_squads / batch_replace_squads: content
    has_path,          \* cleanup_squads: sys.argv holds the file path
    cleaned,           \* cleanup_squads: content inside remove_squads_code, then cleaned
    step,              \* cleanup_squads: number of re.sub statements executed
    before,            \* cleanup_squads: content before the last re.sub statement
    match,             \* batch_replace_squads: the argument of wrap_propose_winner_payout
    result             \* batch_replace_squads: value returned by wrap_propose_winner_payout

vars == << pc, file, file0, lines, start_idx, end_idx, brace_count, found_start,
           replacement_lines, new_lines, exit_code, err, run, prev_start, literal,
           content, has_path, cleaned, step, before, match, result >>

-----------------------------------------------------------------------------
(* Bounds of the model *)

\* longest enumerated input document, in lines
MaxDocLen == 4
\* longest Replacement taken as a parameter, in lines
MaxReplLen == 3
\* lines before the padding of a long document
MaxHead == 2
\* lines after the padding of a long document
MaxTail == 2
\* number of runs of replace_tie_refund on the same file
MaxRuns == 2
\* longest prefix a failed write leaves in the file, in lines
MaxPartial == 1
\* most pieces of text an enumerated file of cleanup_squads is made of
MaxChunks == 3
\* longest enumerated text of batch_replace_squads, in atoms
MaxControllerLen == 4
\* longest enumerated argument of wrap_propose_winner_payout, in atoms
MaxMatchLen == 1
\* atoms on each side of a matched call that count as its surrounding span
SpanRadius == 2

-----------------------------------------------------------------------------
(* Python values and helpers *)

\* Python's None for start_idx and end_idx
None == -1

Min(a, b) == IF a < b THEN a ELSE b

\* s[i] of Python
At(s, i) == s[i + 1]

\* s[a:b] of Python, for 0 <= a and b <= len(s)
Slice(s, a, b) == IF a >= b THEN << >> ELSE SubSeq(s, a + 1, b)

\* tok in line
Has(line, tok) == \E k \in 1..Len(line) : line[k] = tok

\* line.count(tok)
Count(line, tok) == Cardinality({k \in 1..Len(line) : line[k] = tok})

\* all sequences over S of length at most n
SeqsUpTo(S, n) == UNION {[1..k -> S] : k \in 0..n}

-----------------------------------------------------------------------------
(* replace_tie_refund.py *)

\* the window of the brace-count scan
W == 150

\* mutant of ReplacementFirstLine: the comment line without the marker text
ReplacementFirstLine_noMarker == <<"x">>

\* the first line of the literal replacement_lines: it holds the marker text
ReplacementFirstLine == <<"M", "x">>

\* the other 113 lines of the literal replacement_lines, one token sequence per line
ReplacementRest ==
    <<
       <<"x">>, <<>>, <<"x">>,
       <<"x">>, <<>>, <<"x">>, <<"x", "{">>,
       <<"x", "{">>, <<"x">>, <<"x">>, <<"x">>,
       <<"}", "x">>, <<"x">>, <<"}">>, <<>>,
       <<"x">>, <<"x", "{">>, <<"x">>, <<"x">>,
       <<"x">>, <<"x">>, <<"x">>, <<"x">>,
       <<>>, <<"x", "{">>, <<"x">>, <<>>,
       <<"x">>, <<"x">>, <<"x">>, <<"x">>,
       <<"x">>, <<"x">>, <<>>, <<"x">>,
       <<"x">>, <<"x", "{">>, <<"x">>, <<"x">>,
       <<"x">>, <<"x">>, <<"}", "x">>, <<>>,
       <<"x">>, <<"x", "{">>, <<"x">>, <<"x">>,
       <<"x">>, <<"x">>, <<"x">>, <<"x">>,
       <<"x">>, <<"x">>, <<"x">>, <<"{">>,
       <<"x">>, <<"x">>, <<"x">>, <<"x">>,
       <<"}", "x">>, <<"{">>, <<"x">>, <<"x">>,
       <<"x">>, <<"x">>, <<"}">>, <<"x">>,
       <<"}", "x">>, <<>>, <<"x">>, <<"x">>,
       <<>>, <<"}", "x", "{">>, <<"x">>, <<"x", "{", "x", "}", "x">>,
       <<"}">>, <<>>, <<"}", "x", "{">>, <<"x">>,
       <<"x">>, <<>>, <<"x">>, <<"x", "{">>,
       <<"x">>, <<"x">>, <<"x">>, <<"x">>,
       <<"x">>, <<"x">>, <<"x">>, <<"x">>,
       <<"{">>, <<"x">>, <<"x">>, <<"x">>,
       <<"x">>, <<"}", "x">>, <<"{">>, <<"x">>,
       <<"x">>, <<"x">>, <<"x">>, <<"}">>,
       <<"x">>, <<"}", "x">>, <<>>, <<"x">>,
       <<"x">>, <<"x">>, <<>>, <<"x">>,
       <<"}">>, <<"}">>
    >>

\* replacement_lines = [...] as the script writes it
ReplacementLiteral == << ReplacementFirstLine >> \o ReplacementRest

\* for i, line in enumerate(lines): if marker in line: start_idx = i; break
\* over the indices a..b-1, with start_idx = found before them.  The range is run
\* in two halves, first half first, which is the loop's order.
RECURSIVE LocateRange(_, _, _, _, _)
LocateRange(doc, marker, a, b, found) ==
    IF found # None \/ a >= b THEN found
    ELSE IF b = a + 1 THEN (IF Has(At(doc, a), marker) THEN a ELSE None)
    ELSE LocateRange(doc, marker, (a + b) \div 2, b,
                     LocateRange(doc, marker, a, (a + b) \div 2, found))

\* mutant of Locate: the search starts at the second line
Locate_skipsFirstLine(doc, marker) == LocateRange(doc, marker, 1, Len(doc), None)

Locate(doc, marker) == LocateRange(doc, marker, 0, Len(doc), None)

\* mutant of ScanStop: the window is one line longer
ScanStop_oneMore(doc, start) == Min(start + 151, Len(doc))

\* min(start_idx + 150, len(lines)): the index the scan loop stops before
ScanStop(doc, start) == Min(start + W, Len(doc))

\* mutant of EndsBlock: the test is made on every line
EndsBlock_onEveryLine(line, fs, bc) == fs /\ bc = 0

\* the test that ends the scan on a line: it is made only under "if '}' in line"
EndsBlock(line, fs, bc) == Has(line, "}") /\ fs /\ bc = 0

\* mutant of ScanLine: end_idx = i, the closing line left out of the block
ScanLine_endBeforeClosingLine(doc, i, st) ==
    LET line == At(doc, i)
        fs1  == st.found_start \/ Has(line, "{")
        bc2  == st.brace_count + Count(line, "{") - Count(line, "}")
    IN  [end_idx     |-> IF EndsBlock(line, fs1, bc2) THEN i ELSE None,
         brace_count |-> bc2,
         found_start |-> fs1]

\* the body of the scan loop for line i, from the values st before it
ScanLine(doc, i, st) ==
    LET line == At(doc, i)
        fs1  == st.found_start \/ Has(line, "{")
        bc1  == IF Has(line, "{") THEN st.brace_count + Count(line, "{")
                ELSE st.brace_count
        bc2  == IF Has(line, "}") THEN bc1 - Count(line, "}") ELSE bc1
    IN  [end_idx     |-> IF EndsBlock(line, fs1, bc2) THEN i + 1 ELSE None,
         brace_count |-> bc2,
         found_start |-> fs1]

\* the scan loop over the indices a..b-1 from the values st before them; the loop
\* is left (break) once end_idx is set.  The range is run in two halves, first half
\* first, which is the loop's order.
RECURSIVE ScanRange(_, _, _, _)
ScanRange(doc, a, b, st) ==
    IF st.end_idx # None \/ a >= b THEN st
    ELSE IF b = a + 1 THEN ScanLine(doc, a, st)
    ELSE ScanRange(doc, (a + b) \div 2, b, ScanRange(doc, a, (a + b) \div 2, st))

\* the scan loop over range(i, stop) from brace_count = bc and found_start = fs
ScanFrom(doc, i, stop, bc, fs) ==
    ScanRange(doc, i, stop, [end_idx |-> None, brace_count |-> bc, found_start |-> fs])

Scan(doc, start) == ScanFrom(doc, start, ScanStop(doc, start), 0, FALSE)

\* mutant of Replace: lines[end_idx - 1:], the closing line kept
Replace_keepsClosingLine(doc, start, end, repl) ==
    Slice(doc, 0, start) \o repl \o Slice(doc, end - 1, Len(doc))

\* mutant of Replace: lines[end_idx + 1:], the line after the block dropped
Replace_dropsNextLine(doc, start, end, repl) ==
    Slice(doc, 0, start) \o repl \o Slice(doc, end + 1, Len(doc))

\* new_lines = lines[:start_idx] + replacement_lines + lines[end_idx:]
Replace(doc, start, end, repl) ==
    Slice(doc, 0, start) \o repl \o Slice(doc, end, Len(doc))

\* the Replacements a run may build: the script's literal, or any parameter
ReplLines == { <<"x">>, <<"N">> }
Replacements ==
    IF literal THEN {ReplacementLiteral}
    ELSE SeqsUpTo(ReplLines, MaxReplLen) \cup {ReplacementLiteral}

\* with open(..., 'r') as f: lines = f.readlines()
ReadLines ==
    /\ pc = "read"
    /\ lines' = file
    /\ pc' = "find_start"
    /\ UNCHANGED << file, file0, start_idx, end_idx, brace_count, found_start,
                    replacement_lines, new_lines, exit_code, err, run, prev_start,
                    literal, content, has_path, cleaned, step, before, match, result >>

\* open(..., 'r') or readlines() raises: the traceback ends the process
ReadFails ==
    /\ pc = "read"
    /\ pc' = "exit"
    /\ exit_code' = 1
    /\ err' = "IOError"
    /\ UNCHANGED << file, file0, lines, start_idx, end_idx, brace_count, found_start,
                    replacement_lines, new_lines, run, prev_start, literal,
                    content, has_path, cleaned, step, before, match, result >>

\* lines 10-19: the marker search, and sys.exit(1) when nothing is found
FindStart ==
    /\ pc = "find_start"
    /\ start_idx' = Locate(lines, "M")
    /\ IF start_idx' = None
       THEN pc' = "exit" /\ exit_code' = 1 /\ err' = "NotFound"
       ELSE pc' = "find_end" /\ UNCHANGED << exit_code, err >>
    /\ UNCHANGED << file, file0, lines, end_idx, brace_count, found_start,
                    replacement_lines, new_lines, run, prev_start, literal,
                    content, has_path, cleaned, step, before, match, result >>

\* lines 21-38: the brace-count scan, and sys.exit(1) when no end is found
FindEnd ==
    /\ pc = "find_end"
    /\ LET s == Scan(lines, start_idx)
       IN  /\ end_idx' = s.end_idx
           /\ brace_count' = s.brace_count
           /\ found_start' = s.found_start
    /\ IF end_idx' = None
       THEN pc' = "exit" /\ exit_code' = 1 /\ err' = "NoEnd"
       ELSE pc' = "build" /\ UNCHANGED << exit_code, err >>
    /\ UNCHANGED << file, file0, lines, start_idx, replacement_lines, new_lines,
                    run, prev_start, literal, content, has_path, cleaned, step, before, match, result >>

\* lines 43-158: replacement_lines = [...]
BuildReplacement ==
    /\ pc = "build"
    /\ replacement_lines' \in Replacements
    /\ pc' = "replace"
    /\ UNCHANGED << file, file0, lines, start_idx, end_idx, brace_count, found_start,
                    new_lines, exit_code, err, run, prev_start, literal,
                    content, has_path, cleaned, step, before, match, result >>

\* line 161
ReplaceBlock ==
    /\ pc = "replace"
    /\ new_lines' = Replace(lines, start_idx, end_idx, replacement_lines)
    /\ pc' = "open_w"
    /\ UNCHANGED << file, file0, lines, start_idx, end_idx, brace_count, found_start,
                    replacement_lines, exit_code, err, run, prev_start, literal,
                    content, has_path, cleaned, step, before, match, result >>

\* line 162: open(..., 'w') truncates the file
OpenForWrite ==
    /\ pc = "open_w"
    /\ file' = << >>
    /\ pc' = "write"
    /\ UNCHANGED << file0, lines, start_idx, end_idx, brace_count, found_start,
                    replacement_lines, new_lines, exit_code, err, run, prev_start,
                    literal, content, has_path, cleaned, step, before, match, result >>

\* line 162: open(..., 'w') raises before it truncates
OpenForWriteFails ==
    /\ pc = "open_w"
    /\ pc' = "exit"
    /\ exit_code' = 1
    /\ err' = "IOError"
    /\ UNCHANGED << file, file0, lines, start_idx, end_idx, brace_count, found_start,
                    replacement_lines, new_lines, run, prev_start, literal,
                    content, has_path, cleaned, step, before, match, result >>

\* lines 163-165: f.writelines(new_lines), the file is closed, success is printed
WriteLines ==
    /\ pc = "write"
    /\ file' = new_lines
    /\ pc' = "done"
    /\ exit_code' = 0
    /\ UNCHANGED << file0, lines, start_idx, end_idx, brace_count, found_start,
                    replacement_lines, new_lines, err, run, prev_start, literal,
                    content, has_path, cleaned, step, before, match, result >>

\* line 163: the write (or the flush at close) raises after k lines reached the file
WriteLinesFails ==
    /\ pc = "write"
    /\ \E k \in 0..Min(MaxPartial, Len(new_lines)) : file' = Slice(new_lines, 0, k)
    /\ pc' = "exit"
    /\ exit_code' = 1
    /\ err' = "IOError"
    /\ UNCHANGED << file0, lines, start_idx, end_idx, brace_count, found_start,
                    replacement_lines, new_lines, run, prev_start, literal,
                    content, has_path, cleaned, step, before, match, result >>

\* the script is started again on the file it wrote
Rerun ==
    /\ pc = "done"
    /\ run < MaxRuns
    /\ run' = run + 1
    /\ prev_start' = start_idx
    /\ file0' = file
    /\ pc' = "read"
    /\ lines' = << >>
    /\ start_idx' = None
    /\ end_idx' = None
    /\ brace_count' = 0
    /\ found_start' = FALSE
    /\ replacement_lines' = << >>
    /\ new_lines' = << >>
    /\ exit_code' = None
    /\ err' = ""
    /\ UNCHANGED << file, literal, content, has_path, cleaned, step, before, match, result >>

\* input lines of the enumerated documents
DocLines == { <<"x">>, <<"M">>, <<"{">>, <<"}">>, <<"M", "{">>, <<"M", "}">>,
              <<"}", "{">>, <<"{", "{">>, <<"}", "}">> }

ShortDocs == SeqsUpTo(DocLines, MaxDocLen)

InitReplace(docs, lit) ==
    /\ file \in docs
    /\ file0 = file
    /\ literal = lit
    /\ pc = "read"
    /\ lines = << >>
    /\ start_idx = None
    /\ end_idx = None
    /\ brace_count = 0
    /\ found_start = FALSE
    /\ replacement_lines = << >>
    /\ new_lines = << >>
    /\ exit_code = None
    /\ err = ""
    /\ run = 1
    /\ prev_start = None
    /\ content = << >>
    /\ has_path = TRUE
    /\ cleaned = << >>
    /\ step = 0
    /\ before = << >>
    /\ match = << >>
    /\ result = << >>

Init == InitReplace(ShortDocs, TRUE)

Next ==
    \/ ReadLines
    \/ ReadFails
    \/ FindStart
    \/ FindEnd
    \/ BuildReplacement
    \/ ReplaceBlock
    \/ OpenForWrite
    \/ OpenForWriteFails
    \/ WriteLines
    \/ WriteLinesFails

Spec == Init /\ [][Next]_vars

-----------------------------------------------------------------------------
(* cleanup_squads.py *)

(***************************************************************************)
(* The text of the file is a sequence of atoms, none of which holds a      *)
(* newline.  The atoms the patterns look for:                              *)
(*   "d"  /**                                                              *)
(*   "h"  * Helper function to determine if a match uses escrow            *)
(*   "e"  */                                                               *)
(*   "f"  function getMatchSystem(<arguments>):                            *)
(*   "{"  "}"  the delimiters,   "R"  return null;                         *)
(*   "C"  // Import Squads service                                         *)
(*   "v"  const { squadsVaultService } = require('../services/             *)
(*        squadsVaultService');                                            *)
(*   "V"  const { SquadsVaultService } = require('../services/             *)
(*        squadsVaultService');                                            *)
(*   "s"  const squadsService = new SquadsVaultService();                  *)
(*   "n"  a newline,   "x"  a run of any other text on one line            *)
(***************************************************************************)
Atoms == { "d", "h", "e", "f", "{", "}", "R", "C", "v", "V", "s", "n", "x" }

\* the atoms . matches under re.DOTALL
AnyAtom == Atoms
\* the atoms [^\n] matches
NotNewline == Atoms \ { "n" }
\* the atoms [^}] matches: those that hold no closing delimiter
NotClose == Atoms \ { "}", "v", "V" }
\* the atoms \s matches
Space == { "n" }

Lit(a) == [k |-> "lit", a |-> a, cls |-> {}, lazy |-> FALSE]
Star(cls) == [k |-> "star", a |-> "", cls |-> cls, lazy |-> FALSE]
LazyStar(cls) == [k |-> "star", a |-> "", cls |-> cls, lazy |-> TRUE]

\* line 19: the getMatchSystem function with its doc comment
FunctionPattern ==
    << Lit("d"), Star(Space), Lit("n"), Star(Space), Lit("h"), LazyStar(AnyAtom),
       Lit("n"), Star(Space), Lit("e"), Star(Space), Lit("n"), Lit("f"),
       LazyStar(AnyAtom), Lit("{"), Star(NotClose), Lit("R"), Star(Space), Lit("}") >>

\* line 27: the commented import of squadsVaultService
ImportPattern ==
    << Lit("C"), Star(NotNewline), Lit("n"), Lit("v"), Star(NotNewline), Lit("n") >>

\* line 32: the import of the SquadsVaultService class
ClassPattern == << Lit("V"), Star(NotNewline), Lit("n") >>

\* line 37: the construction of squadsService
InstancePattern == << Lit("s"), Star(NotNewline), Lit("n") >>

\* mutant of RemovalPatterns: the class import is removed before the commented import
RemovalPatterns_classFirst ==
    << FunctionPattern, ClassPattern, ImportPattern, InstancePattern >>

\* the patterns in the order of the re.sub statements of remove_squads_code
RemovalPatterns == << FunctionPattern, ImportPattern, ClassPattern, InstancePattern >>

\* no match
Fail == 0

\* the number of atoms of text from position pos on that are all in cls
RECURSIVE RunLen(_, _, _)
RunLen(text, pos, cls) ==
    IF pos > Len(text) \/ text[pos] \notin cls THEN 0
    ELSE 1 + RunLen(text, pos + 1, cls)

\* re's backtracking match of the elements j.. of pat at position pos of text: the
\* position after the match, or Fail.  A greedy star takes the longest run after
\* which the rest matches, a lazy star the shortest.
RECURSIVE MatchEnd(_, _, _, _)
MatchEnd(text, pos, pat, j) ==
    IF j > Len(pat) THEN pos
    ELSE IF pat[j].k = "lit"
    THEN IF pos <= Len(text) /\ text[pos] = pat[j].a
         THEN MatchEnd(text, pos + 1, pat, j + 1)
         ELSE Fail
    ELSE LET ok == { m \in 0..RunLen(text, pos, pat[j].cls) :
                       MatchEnd(text, pos + m, pat, j + 1) # Fail }
         IN  IF ok = {} THEN Fail
             ELSE IF pat[j].lazy
             THEN MatchEnd(text, pos + (CHOOSE m \in ok : \A o \in ok : m <= o), pat, j + 1)
             ELSE MatchEnd(text, pos + (CHOOSE m \in ok : \A o \in ok : m >= o), pat, j + 1)

\* re.sub(pat, '', text) from position pos on: leftmost matches, left to right,
\* none overlapping, each replaced by the empty string
RECURSIVE SubFrom(_, _, _)
SubFrom(text, pos, pat) ==
    IF pos > Len(text) THEN << >>
    ELSE IF MatchEnd(text, pos, pat, 1) # Fail
    THEN SubFrom(text, MatchEnd(text, pos, pat, 1), pat)
    ELSE << text[pos] >> \o SubFrom(text, pos + 1, pat)

Sub(pat, text) == SubFrom(text, 1, pat)

\* lines 55-57: the usage check
CheckArgs ==
    /\ pc = "c_args"
    /\ IF has_path
       THEN pc' = "c_read" /\ UNCHANGED << exit_code, err >>
       ELSE pc' = "exit" /\ exit_code' = 1 /\ err' = "Usage"
    /\ UNCHANGED << file, file0, lines, start_idx, end_idx, brace_count, found_start,
                    replacement_lines, new_lines, run, prev_start, literal,
                    content, has_path, cleaned, step, before, match, result >>

\* lines 60-63: content = f.read(), and the call of remove_squads_code(content)
ReadContent ==
    /\ pc = "c_read"
    /\ content' = file
    /\ cleaned' = file
    /\ pc' = "c_sub"
    /\ UNCHANGED << file, file0, lines, start_idx, end_idx, brace_count, found_start,
                    replacement_lines, new_lines, exit_code, err, run, prev_start,
                    literal, has_path, step, before, match, result >>

\* line 60-61: open(filepath, 'r') or read() raises
ReadContentFails ==
    /\ pc = "c_read"
    /\ pc' = "exit"
    /\ exit_code' = 1
    /\ err' = "IOError"
    /\ UNCHANGED << file, file0, lines, start_idx, end_idx, brace_count, found_start,
                    replacement_lines, new_lines, run, prev_start, literal,
                    content, has_path, cleaned, step, before, match, result >>

\* lines 18-40: the next re.sub statement of remove_squads_code; after the fourth,
\* return content (line 52)
RemoveStep ==
    /\ pc = "c_sub"
    /\ before' = cleaned
    /\ cleaned' = Sub(RemovalPatterns[step + 1], cleaned)
    /\ step' = step + 1
    /\ pc' = IF step' = Len(RemovalPatterns) THEN "c_open_w" ELSE "c_sub"
    /\ UNCHANGED << file, file0, lines, start_idx, end_idx, brace_count, found_start,
                    replacement_lines, new_lines, exit_code, err, run, prev_start,
                    literal, content, has_path, match, result >>

\* line 65: open(filepath, 'w') truncates the file
OpenCleaned ==
    /\ pc = "c_open_w"
    /\ file' = << >>
    /\ pc' = "c_write"
    /\ UNCHANGED << file0, lines, start_idx, end_idx, brace_count, found_start,
                    replacement_lines, new_lines, exit_code, err, run, prev_start,
                    literal, content, has_path, cleaned, step, before, match, result >>

\* line 65: open(filepath, 'w') raises before it truncates
OpenCleanedFails ==
    /\ pc = "c_open_w"
    /\ pc' = "exit"
    /\ exit_code' = 1
    /\ err' = "IOError"
    /\ UNCHANGED << file, file0, lines, start_idx, end_idx, brace_count, found_start,
                    replacement_lines, new_lines, run, prev_start, literal,
                    content, has_path, cleaned, step, before, match, result >>

\* lines 66-68: f.write(cleaned), the file is closed, "Cleaned" is printed
WriteCleaned ==
    /\ pc = "c_write"
    /\ file' = cleaned
    /\ pc' = "done"
    /\ exit_code' = 0
    /\ UNCHANGED << file0, lines, start_idx, end_idx, brace_count, found_start,
                    replacement_lines, new_lines, err, run, prev_start, literal,
                    content, has_path, cleaned, step, before, match, result >>

\* line 66: the write (or the flush at close) raises after k atoms reached the file
WriteCleanedFails ==
    /\ pc = "c_write"
    /\ \E k \in 0..Min(MaxPartial, Len(cleaned)) : file' = Slice(cleaned, 0, k)
    /\ pc' = "exit"
    /\ exit_code' = 1
    /\ err' = "IOError"
    /\ UNCHANGED << file0, lines, start_idx, end_idx, brace_count, found_start,
                    replacement_lines, new_lines, run, prev_start, literal,
                    content, has_path, cleaned, step, before, match, result >>

\* pieces of text the enumerated files are made of
Chunks == { <<"x">>, <<"n">>, <<"}">>, <<"d", "n", "h">>, <<"n", "e", "n", "f", "{">>,
            <<"R", "n", "}">>,
            <<"C", "x", "n">>, <<"v", "n">>, <<"V", "n">>, <<"s", "x", "n">>, <<"s">> }

RECURSIVE Concat(_)
Concat(ss) == IF ss = << >> THEN << >> ELSE Head(ss) \o Concat(Tail(ss))

Texts == { Concat(cs) : cs \in SeqsUpTo(Chunks, MaxChunks) }

InitCleanup ==
    /\ file \in Texts
    /\ file0 = file
    /\ has_path \in BOOLEAN
    /\ pc = "c_args"
    /\ content = << >>
    /\ cleaned = << >>
    /\ step = 0
    /\ before = << >>
    /\ exit_code = None
    /\ err = ""
    /\ lines = << >>
    /\ start_idx = None
    /\ end_idx = None
    /\ brace_count = 0
    /\ found_start = FALSE
    /\ replacement_lines = << >>
    /\ new_lines = << >>
    /\ run = 1
    /\ prev_start = None
    /\ literal = TRUE
    /\ match = << >>
    /\ result = << >>

NextCleanup ==
    \/ CheckArgs
    \/ ReadContent
    \/ ReadContentFails
    \/ RemoveStep
    \/ OpenCleaned
    \/ OpenCleanedFails
    \/ WriteCleaned
    \/ WriteCleanedFails

SpecCleanup == InitCleanup /\ [][NextCleanup]_vars

-----------------------------------------------------------------------------
(* batch_replace_squads.py *)

(***************************************************************************)
(* The text is a sequence of atoms: "w" is one whitespace character, "P"   *)
(* and "Q" are the two calls the pattern of line 13 names,                 *)
(*   "P"  const proposalResult = await squadsVaultService.                 *)
(*        proposeWinnerPayout(                                             *)
(*   "Q"  const proposalResult = await squadsService.proposeWinnerPayout(  *)
(* "reloadedMatch", "updatedMatch" and "match" are occurrences of these    *)
(* identifiers, "x" is any other text, and the other atoms are the pieces  *)
(* of the text the template of lines 18-26 writes.                         *)
(***************************************************************************)
Calls == { "P", "Q" }

\* line 19: the conditional expression that picks the identifier from match
ChooseIdentifier(text) ==
    IF Has(text, "reloadedMatch") THEN "reloadedMatch"
    ELSE IF Has(text, "updatedMatch") THEN "updatedMatch"
    ELSE IF Has(text, "match") THEN "match"
    ELSE "freshMatch"

\* lines 15-26: replacement(m), with indent = m.group(1), call_start = m.group(2);
\* the identifier is picked from arg, the argument match of the enclosing function
replacement(indent, call_start, arg) ==
    indent \o << "// Check if match uses escrow or Squads", "n" >>
    \o indent \o << "const matchSystem = getMatchSystem(", ChooseIdentifier(arg),
                    ");", "n" >>
    \o indent \o << "if (matchSystem === 'escrow') {", "n" >>
    \o indent \o << "// NEW ESCROW SYSTEM", "n" >>
    \o indent \o << "console.log('Escrow match')", "n" >>
    \o indent \o << "return;", "n" >>
    \o indent \o << "} else if (matchSystem === 'squads') {", "n" >>
    \o indent \o << "// OLD SQUADS SYSTEM", "n" >>
    \o indent \o << call_start >>

\* line 28: re.sub(pattern, replacement, content) from position pos on; the pattern
\* (\s+)(call) matches a run of whitespace that a call follows
RECURSIVE WrapFrom(_, _, _)
WrapFrom(text, pos, arg) ==
    IF pos > Len(text) THEN << >>
    ELSE LET ws == RunLen(text, pos, {"w"})
         IN  IF ws >= 1 /\ pos + ws <= Len(text) /\ text[pos + ws] \in Calls
             THEN replacement(SubSeq(text, pos, pos + ws - 1), text[pos + ws], arg)
                  \o WrapFrom(text, pos + ws + 1, arg)
             ELSE << text[pos] >> \o WrapFrom(text, pos + 1, arg)

\* lines 12-28: wrap_propose_winner_payout(match), on the global content
wrap_propose_winner_payout(arg) == WrapFrom(content, 1, arg)

\* lines 8-9: content = f.read()
ReadController ==
    /\ pc = "b_read"
    /\ content' = file
    /\ pc' = "b_loaded"
    /\ UNCHANGED << file, file0, lines, start_idx, end_idx, brace_count, found_start,
                    replacement_lines, new_lines, exit_code, err, run, prev_start,
                    literal, has_path, cleaned, step, before, match, result >>

\* a call wrap_propose_winner_payout(m) for some text m
CallWrap ==
    /\ pc = "b_loaded"
    /\ \E m \in SeqsUpTo({"reloadedMatch", "updatedMatch", "match", "x"}, MaxMatchLen) :
         match' = m
    /\ result' = wrap_propose_winner_payout(match')
    /\ pc' = "b_wrapped"
    /\ UNCHANGED << file, file0, lines, start_idx, end_idx, brace_count, found_start,
                    replacement_lines, new_lines, exit_code, err, run, prev_start,
                    literal, content, has_path, cleaned, step, before >>

\* lines 31-32: the two print statements; the file is not written
PrintSize ==
    /\ pc \in {"b_loaded", "b_wrapped"}
    /\ pc' = "done"
    /\ exit_code' = 0
    /\ UNCHANGED << file, file0, lines, start_idx, end_idx, brace_count, found_start,
                    replacement_lines, new_lines, err, run, prev_start, literal,
                    content, has_path, cleaned, step, before, match, result >>

ControllerAtoms == { "w", "P", "Q", "reloadedMatch", "updatedMatch", "match", "x" }

InitWrap ==
    /\ file \in SeqsUpTo(ControllerAtoms, MaxControllerLen)
    /\ file0 = file
    /\ pc = "b_read"
    /\ content = << >>
    /\ match = << >>
    /\ result = << >>
    /\ has_path = TRUE
    /\ cleaned = << >>
    /\ step = 0
    /\ before = << >>
    /\ exit_code = None
    /\ err = ""
    /\ lines = << >>
    /\ start_idx = None
    /\ end_idx = None
    /\ brace_count = 0
    /\ found_start = FALSE
    /\ replacement_lines = << >>
    /\ new_lines = << >>
    /\ run = 1
    /\ prev_start = None
    /\ literal = TRUE

NextWrap ==
    \/ ReadController
    \/ CallWrap
    \/ PrintSize

SpecWrap == InitWrap /\ [][NextWrap]_vars

-----------------------------------------------------------------------------
(* Vocabulary of the properties of replace_tie_refund *)

\* the marker search has been made in this run
Searched ==
    /\ pc \notin {"read", "find_start"}
    /\ ~(err = "IOError" /\ start_idx = None)

\* the brace-count scan has been made in this run
Scanned == start_idx # None /\ pc # "find_end"

HasMarker(doc) == \E j \in 0..(Len(doc) - 1) : Has(At(doc, j), "M")

\* sum over the lines start..i of (number of "{" minus number of "}")
RECURSIVE Depth(_, _, _)
Depth(doc, start, i) ==
    IF i < start THEN 0
    ELSE Depth(doc, start, i - 1) + Count(At(doc, i), "{") - Count(At(doc, i), "}")

\* an opening delimiter occurs on one of the lines start..i
OpenSeen(doc, start, i) == \E j \in start..i : Has(At(doc, j), "{")

\* the last index the scan may look at
LastScannable(doc, start) == Min(start + 150, Len(doc)) - 1

\* scanned lines at which the depth is zero, at or after the first opening delimiter
ZeroLines(doc, start) ==
    { i \in start..LastScannable(doc, start) :
        OpenSeen(doc, start, i) /\ Depth(doc, start, i) = 0 }

\* those of them that hold a closing delimiter
ClosingZeroLines(doc, start) ==
    { i \in ZeroLines(doc, start) : Has(At(doc, i), "}") }

Least(S) == CHOOSE m \in S : \A n \in S : m <= n

-----------------------------------------------------------------------------
(* Properties of replace_tie_refund under Spec *)

\* C2 (as stated): after the scan, end_idx is one past the FIRST scanned line, at or
\* after the first opening delimiter, at which the depth (sum of opens minus closes
\* over start..i) is zero, whatever that line contains; None if there is no such line.
C2_EndAtFirstZeroLine ==
    Scanned =>
        IF ZeroLines(lines, start_idx) = {}
        THEN end_idx = None
        ELSE end_idx = Least(ZeroLines(lines, start_idx)) + 1

\* C2 (amended): brace_count is the sum over the scanned lines of opens minus closes,
\* and end_idx is one past the first scanned line that CONTAINS A CLOSING DELIMITER,
\* at or after the first opening delimiter, at which that sum is zero; None if the
\* scanned lines hold no such line.
C2_EndAtFirstClosingZeroLine ==
    Scanned =>
        /\ IF ClosingZeroLines(lines, start_idx) = {}
           THEN end_idx = None
           ELSE end_idx = Least(ClosingZeroLines(lines, start_idx)) + 1
        /\ brace_count =
             Depth(lines, start_idx,
                   IF end_idx = None THEN LastScannable(lines, start_idx)
                   ELSE end_idx - 1)

\* C2 witness: the scan passed a line without closing delimiter at which the depth
\* was zero after an opening delimiter, and ended on a later line
C2_Witness ==
    /\ Scanned
    /\ end_idx # None
    /\ Least(ZeroLines(lines, start_idx)) + 1 < end_idx

\* C3: start_idx is the smallest index of a line containing the marker; a document
\* without the marker ends the run with NotFound and exit status 1, with no scan,
\* no replacement and no write, the file unchanged.
C3_FirstMarkerOrNotFound ==
    /\ start_idx # None =>
         /\ Has(At(lines, start_idx), "M")
         /\ \A j \in 0..(start_idx - 1) : ~Has(At(lines, j), "M")
    /\ (Searched /\ HasMarker(lines)) => start_idx # None /\ err # "NotFound"
    /\ (Searched /\ ~HasMarker(lines)) =>
         /\ pc = "exit" /\ err = "NotFound" /\ exit_code = 1
         /\ start_idx = None /\ end_idx = None
         /\ replacement_lines = << >> /\ new_lines = << >>
         /\ file = file0

\* C3 witness: a run on a document with braces but no marker ended with NotFound
C3_Witness ==
    /\ pc = "exit" /\ err = "NotFound"
    /\ Len(file0) >= 2
    /\ \E j \in 0..(Len(lines) - 1) : Has(At(lines, j), "{")

\* C4: a run that ends with an error leaves the target file as it was before the run
C4_ErrorLeavesFileUnchanged ==
    (pc = "exit" /\ exit_code = 1) => file = file0

-----------------------------------------------------------------------------
(* replace_tie_refund with the Replacement taken as a parameter *)

ParamLines == { <<"x">>, <<"N">>, <<"{">>, <<"}">>, <<"M", "{">>, <<"M", "{", "}">> }

PlainLines == { <<"x">>, <<"N">> }

\* five lines: line 2 holds the marker and "{", line 4 holds "}", the others neither
ExampleDocs ==
    { << a, b, <<"M", "{">>, c, <<"}">> >> : a \in PlainLines, b \in PlainLines,
                                           c \in PlainLines }

ParamDocs == SeqsUpTo(ParamLines, MaxDocLen) \cup ExampleDocs

InitR == InitReplace(ParamDocs, FALSE)

SpecR == InitR /\ [][Next]_vars

\* the run wrote its result
Written == pc = "done"

\* C1: the written document is lines[0..start) ++ R ++ lines[end..len): the block is
\* a range 0 <= start < end <= len, the first start lines are the input's, then come
\* the lines of R, then the input's lines from end on, in order, and nothing else.
C1_OnlyBlockReplaced ==
    Written =>
        LET R == replacement_lines
            shift == Len(R) - (end_idx - start_idx)
        IN  /\ 0 <= start_idx /\ start_idx < end_idx /\ end_idx <= Len(file0)
            /\ Len(file) = Len(file0) + shift
            /\ \A i \in 0..(start_idx - 1) : At(file, i) = At(file0, i)
            /\ \A j \in 0..(Len(R) - 1) : At(file, start_idx + j) = At(R, j)
            /\ \A i \in end_idx..(Len(file0) - 1) : At(file, i + shift) = At(file0, i)

\* C1 witness: a block with lines before and after it was removed (empty Replacement)
C1_Witness ==
    /\ Written
    /\ replacement_lines = << >>
    /\ start_idx > 0
    /\ end_idx < Len(file0)

\* the other marker occurs exactly once in doc
UniqueOther(doc) ==
    /\ Cardinality({ j \in 0..(Len(doc) - 1) : Has(At(doc, j), "N") }) = 1
    /\ \A j \in 0..(Len(doc) - 1) : Count(At(doc, j), "N") <= 1

\* the case of C6: a written result, the other marker once in the input, on a line
\* outside the block, and nowhere in the Replacement
OtherMarkerCase ==
    /\ Written
    /\ UniqueOther(file0)
    /\ Locate(file0, "N") \notin start_idx..(end_idx - 1)
    /\ Locate(replacement_lines, "N") = None

\* C6 (as stated): every such marker is found in the output at its input index
\* shifted by len(R) - (end - start).
C6_OtherMarkerShifted ==
    OtherMarkerCase =>
        Locate(file, "N") =
            Locate(file0, "N") + Len(replacement_lines) - (end_idx - start_idx)

\* C6 (amended): such a marker on a line at or after end is found in the output at
\* its input index shifted by len(R) - (end - start); one on a line before start is
\* found at its input index, unshifted.
C6_OtherMarkerShiftedAfterBlock ==
    OtherMarkerCase =>
        /\ Locate(file0, "N") >= end_idx =>
             Locate(file, "N") =
                 Locate(file0, "N") + Len(replacement_lines) - (end_idx - start_idx)
        /\ Locate(file0, "N") < start_idx =>
             Locate(file, "N") = Locate(file0, "N")

\* C6 witness: a marker after the block moved by a shift that is not zero
C6_Witness ==
    /\ OtherMarkerCase
    /\ Locate(file0, "N") >= end_idx
    /\ Len(replacement_lines) # end_idx - start_idx
    /\ Len(replacement_lines) > 0

\* a line with neither the marker nor a delimiter
Plain(line) == ~Has(line, "M") /\ ~Has(line, "{") /\ ~Has(line, "}")

\* the case of C7: the five-line document (line 2 holds the marker and the one
\* opening delimiter, line 4 the one closing delimiter, the other lines neither)
\* and a Replacement of three lines
ExampleCase ==
    /\ Written
    /\ Len(file0) = 5
    /\ Has(At(file0, 2), "M")
    /\ Count(At(file0, 2), "{") = 1 /\ Count(At(file0, 2), "}") = 0
    /\ Count(At(file0, 4), "}") = 1 /\ Count(At(file0, 4), "{") = 0
    /\ Plain(At(file0, 0)) /\ Plain(At(file0, 1)) /\ Plain(At(file0, 3))
    /\ Len(replacement_lines) = 3

\* C7 (as stated): the output is lines [0,2), the 3 replacement lines, then original
\* lines [4,5): 2 + 3 + 1 = 6 lines.
C7_ExampleKeepsLine4 ==
    ExampleCase =>
        /\ file = Slice(file0, 0, 2) \o replacement_lines \o Slice(file0, 4, 5)
        /\ Len(file) = 6

\* C7 (amended): the block is [2,5), the line 4 that closes it included; the output
\* is lines [0,2) followed by the 3 replacement lines: 2 + 3 + 0 = 5 lines.
C7_ExampleReplacesThroughLine4 ==
    ExampleCase =>
        /\ start_idx = 2 /\ end_idx = 5
        /\ file = Slice(file0, 0, 2) \o replacement_lines
        /\ Len(file) = 5

\* C7 witness: the example ran to its end
C7_Witness == ExampleCase /\ At(file, 4) = At(replacement_lines, 2)

-----------------------------------------------------------------------------
(* replace_tie_refund on documents longer than the scan window *)

WindowLines == { <<"M", "{">>, <<"{">>, <<"}">> }

\* k lines of other text
Pad(k) == [j \in 1..k |-> <<"x">>]

\* the paddings that put the lines after them around the end of the window
PadSizes == (W - MaxHead - MaxTail)..W

LongDocs ==
    { h \o Pad(k) \o t : h \in SeqsUpTo(WindowLines, MaxHead), k \in PadSizes,
                         t \in SeqsUpTo(WindowLines, MaxTail) }

InitWindow == InitReplace(LongDocs, TRUE)

SpecWindow == InitWindow /\ [][Next]_vars

\* over the lines a..b: their sum of (number of "{" minus number of "}"), and the
\* set of the sums over a..i for every i in a..b
RECURSIVE DepthRun(_, _, _)
DepthRun(doc, a, b) ==
    IF a > b THEN [sum |-> 0, upto |-> {}]
    ELSE IF a = b
    THEN LET d1 == Count(At(doc, a), "{") - Count(At(doc, a), "}")
         IN  [sum |-> d1, upto |-> {d1}]
    ELSE LET left  == DepthRun(doc, a, (a + b) \div 2)
             right == DepthRun(doc, (a + b) \div 2 + 1, b)
         IN  [sum  |-> left.sum + right.sum,
              upto |-> left.upto \cup { left.sum + p : p \in right.upto }]

\* the depth, d before line i, is zero at none of the lines i..last
NoZeroDepth(doc, i, last, d) == \A p \in DepthRun(doc, i, last).upto : d + p # 0

\* the line that closes the block opened at start when the whole document is scanned
\* (None - 1 when no line closes it)
ClosingLine(doc, start) == ScanFrom(doc, start, Len(doc), 0, FALSE).end_idx - 1

\* C5: with the window of 150 lines, when the marker line opens a delimiter and the
\* depth is zero at none of the lines start..start+149 (or start..len-1 if the
\* document ends first), the scan yields no end, the run exits with status 1 before
\* the replacement is built, and the file is not written; and a block whose closing
\* line is at an index <= start+149 is found.
C5_WindowOf150 ==
    Scanned =>
        /\ ( /\ Has(At(lines, start_idx), "{")
             /\ NoZeroDepth(lines, start_idx, Min(start_idx + 149, Len(lines) - 1), 0) )
           => /\ end_idx = None
              /\ pc = "exit" /\ exit_code = 1 /\ err = "NoEnd"
              /\ replacement_lines = << >> /\ new_lines = << >>
              /\ file = file0
        /\ ( /\ ClosingLine(lines, start_idx) >= start_idx
             /\ ClosingLine(lines, start_idx) <= start_idx + 149 )
           => /\ end_idx = ClosingLine(lines, start_idx) + 1
              /\ err # "NoEnd"

\* C5 witness: the block closes on the first line after the window, and the run
\* ended without an end
C5_Witness ==
    /\ Scanned
    /\ Has(At(lines, start_idx), "{")
    /\ ClosingLine(lines, start_idx) = start_idx + 150
    /\ err = "NoEnd"
    /\ file = file0

-----------------------------------------------------------------------------
(* replace_tie_refund run again on its own output *)

NextRerun ==
    \/ Next
    \/ Rerun

SpecRerun == Init /\ [][NextRerun]_vars

\* C10: after a successful run the marker search on the written document gives the
\* run's start_idx again; a second run on the output does not end with NotFound, its
\* start_idx is that of the first run, and its scan finds the end of a block.
C10_AnchorPreserved ==
    /\ Written => Locate(file, "M") = start_idx
    /\ (run > 1 /\ Searched) =>
         /\ err # "NotFound"
         /\ start_idx = prev_start
    /\ (run > 1 /\ Scanned) =>
         /\ err # "NoEnd"
         /\ end_idx > start_idx

\* C10 witness: the second run found a block at the anchor of the first and wrote it
C10_Witness ==
    /\ run = 2
    /\ Written
    /\ prev_start > 0
    /\ start_idx = prev_start

-----------------------------------------------------------------------------
(* Properties of cleanup_squads under SpecCleanup *)

\* pat matches somewhere in text
Occurs(pat, text) == \E pos \in 1..Len(text) : MatchEnd(text, pos, pat, 1) # Fail

\* text holds none of the four targeted patterns
NoTarget(text) ==
    /\ ~Occurs(FunctionPattern, text)
    /\ ~Occurs(ImportPattern, text)
    /\ ~Occurs(ClassPattern, text)
    /\ ~Occurs(InstancePattern, text)

-----------------------------------------------------------------------------
(* Properties of batch_replace_squads under SpecWrap *)

\* the identifiers the template inserted, in the order of the generated
\* getMatchSystem(...) lines of text
RECURSIVE InsertedFrom(_, _)
InsertedFrom(text, pos) ==
    IF pos >= Len(text) THEN << >>
    ELSE IF text[pos] = "const matchSystem = getMatchSystem("
    THEN << text[pos + 1] >> \o InsertedFrom(text, pos + 2)
    ELSE InsertedFrom(text, pos + 1)

Inserted(text) == InsertedFrom(text, 1)

\* the spans that surround the matched calls of text, in order: SpanRadius atoms
\* before the match, the match, and SpanRadius atoms after it
RECURSIVE SpansFrom(_, _)
SpansFrom(text, pos) ==
    IF pos > Len(text) THEN << >>
    ELSE LET ws == RunLen(text, pos, {"w"})
         IN  IF ws >= 1 /\ pos + ws <= Len(text) /\ text[pos + ws] \in Calls
             THEN << SubSeq(text, IF pos - SpanRadius < 1 THEN 1 ELSE pos - SpanRadius,
                            Min(pos + ws + SpanRadius, Len(text))) >>
                  \o SpansFrom(text, pos + ws + 1)
             ELSE SpansFrom(text, pos + 1)

Spans(text) == SpansFrom(text, 1)

\* the first of the ordered candidates present in span, the default if none is
Candidates == << "reloadedMatch", "updatedMatch", "match" >>
FirstCandidate(span) ==
    IF \E c \in 1..Len(Candidates) : Has(span, Candidates[c])
    THEN Candidates[CHOOSE c \in 1..Len(Candidates) :
                      /\ Has(span, Candidates[c])
                      /\ \A b \in 1..(c - 1) : ~Has(span, Candidates[b])]
    ELSE "freshMatch"

\* C9: for every matched call, the identifier inserted into its getMatchSystem(...)
\* line is the first of reloadedMatch, updatedMatch, match present in the span that
\* surrounds that match, and freshMatch when none is.
C9_IdentifierFromSurroundingSpan ==
    pc = "b_wrapped" =>
        /\ Len(Inserted(result)) = Len(Spans(content))
        /\ \A k \in 1..Len(Spans(content)) :
             Inserted(result)[k] = FirstCandidate(Spans(content)[k])

====
